---------------------------- MODULE Spec2Model ----------------------------
(***************************************************************************)
(* Offer eligibility, discount calculation and the booking flow of the     *)
(* hotel management application (models/offer.py, blueprints/booking.py,   *)
(* blueprints/api.py, blueprints/admin.py).                                *)
(*                                                                         *)
(* Conventions of the model                                                *)
(*  - Python floats (amounts, discount_value, ...) are held as integers in *)
(*    hundredths: 8000.00 is 800000, a discount_value of 20 is 2000.       *)
(*    Intermediate quotients are exact rationals <<num, den>> and          *)
(*    round(x, 2) rounds them to the nearest hundredth (half to even).     *)
(*  - A date is the number of days since 2026-01-01; a datetime is counted *)
(*    in half days (2 * day for midnight, 2 * day + 1 for noon).           *)
(*  - Python's None is the empty sequence, a present value v is <<v>>.     *)
(*  - A call that raises yields [raised |-> TRUE, ...].                    *)
(***************************************************************************)
EXTENDS Integers, Sequences, FiniteSets, TLC

VARIABLES
    offers,     \* the offers table: offer id -> row
    bookings,   \* the bookings table: a sequence of rows, the id is the index
    payments,   \* the payments table: a sequence of rows
    applied,    \* history: for each booking id, the applied_offers list that
                \* book_room built for it (offer ids; the program stores only
                \* coupon_code and discount_amount)
    now,        \* datetime.utcnow(), in half days
    response,   \* what the last request (or call) returned
    requests    \* book_room requests being served concurrently: request ->
                \* its position in the handler and its local variables

vars == <<offers, bookings, payments, applied, now, response, requests>>

-----------------------------------------------------------------------------
(* Python values *)

None == << >>
Some(v) == <<v>>
IsNone(x) == Len(x) = 0
Val(x) == x[1]

\* truth value of an optional number: None and 0 are falsy
Truthy(x) == Len(x) = 1 /\ x[1] # 0

Min(a, b) == IF a <= b THEN a ELSE b
Max(a, b) == IF a >= b THEN a ELSE b

Returned(v) == [raised |-> FALSE, value |-> v]
Raised(e) == [raised |-> TRUE, value |-> e]

\* round(num/den, 2) on a value held in hundredths: nearest integer, half to even
Round2(num, den) ==
    LET q == num \div den
        r == num % den
    IN  IF 2 * r < den THEN q
        ELSE IF 2 * r > den THEN q + 1
        ELSE IF q % 2 = 0 THEN q ELSE q + 1

\* int(a / b) for integers a, b with b # 0: truncation toward zero
TruncDiv(a, b) ==
    LET n == IF a < 0 THEN -a ELSE a
        d == IF b < 0 THEN -b ELSE b
        q == n \div d
    IN  IF (a < 0) = (b < 0) THEN q ELSE -q

-----------------------------------------------------------------------------
(* Dates *)

\* date.month of a day of 2026 or 2027 (neither is a leap year)
Month(d) ==
    LET y == d % 365
    IN  IF y < 31 THEN 1 ELSE IF y < 59 THEN 2 ELSE IF y < 90 THEN 3
        ELSE IF y < 120 THEN 4 ELSE IF y < 151 THEN 5 ELSE IF y < 181 THEN 6
        ELSE IF y < 212 THEN 7 ELSE IF y < 243 THEN 8 ELSE IF y < 273 THEN 9
        ELSE IF y < 304 THEN 10 ELSE IF y < 334 THEN 11 ELSE 12

\* date.weekday(): Monday is 0; 2026-01-01 is a Thursday
Weekday(d) == (d + 3) % 7

\* date.today()
Today == now \div 2

\* the datetime at midnight of a date
Midnight(d) == 2 * d

-----------------------------------------------------------------------------
(* models/offer.py *)

\* Booking.query.filter_by(user_id=user.id, status='completed').count()
completed_bookings(uid) ==
    Cardinality({i \in DOMAIN bookings :
        bookings[i].user_id = uid /\ bookings[i].status = "completed"})

\* is_valid_for_user with the vip threshold one booking too low
is_valid_for_user_vip2(self, uid) ==
    IF self.target_user_type = "all" THEN TRUE
    ELSE IF self.target_user_type = "new_user" THEN completed_bookings(uid) = 0
    ELSE IF self.target_user_type = "returning_user" THEN completed_bookings(uid) >= 1
    ELSE IF self.target_user_type = "vip" THEN completed_bookings(uid) >= 2
    ELSE FALSE

is_valid_for_user(self, uid) ==
    IF self.target_user_type = "all" THEN TRUE
    ELSE IF self.target_user_type = "new_user" THEN completed_bookings(uid) = 0
    ELSE IF self.target_user_type = "returning_user" THEN completed_bookings(uid) >= 1
    ELSE IF self.target_user_type = "vip" THEN completed_bookings(uid) >= 3
    ELSE FALSE

\* Offer defines neither is_valid_season nor is_valid_day: the attribute
\* lookup itself raises AttributeError
is_valid_season(self, check_in) == Raised("AttributeError")
is_valid_day(self, check_in) == Raised("AttributeError")

\* booking_data is a dict with check_in, check_out (optional dates) and total_amount
is_valid_for_booking(self, bd) ==
    LET has_in == ~IsNone(bd.check_in)
        has_out == ~IsNone(bd.check_out)
        nights == Val(bd.check_out) - Val(bd.check_in)
        days_in_advance == Val(bd.check_in) - Today
    IN  IF bd.total_amount < self.min_amount THEN Returned(FALSE)
        ELSE IF has_in /\ has_out /\ nights < self.min_stay_nights THEN Returned(FALSE)
        ELSE IF has_in /\ has_out /\ Truthy(self.max_stay_nights)
                /\ nights > Val(self.max_stay_nights) THEN Returned(FALSE)
        ELSE IF has_in /\ self.advance_booking_days > 0
                /\ days_in_advance < self.advance_booking_days THEN Returned(FALSE)
        ELSE IF has_in /\ self.advance_booking_days > 0
                /\ Truthy(self.max_advance_booking_days)
                /\ days_in_advance > Val(self.max_advance_booking_days) THEN Returned(FALSE)
        ELSE IF self.season_type # "all" /\ has_in
                /\ is_valid_season(self, Val(bd.check_in)).raised
            THEN is_valid_season(self, Val(bd.check_in))
        ELSE IF self.season_type # "all" /\ has_in
                /\ ~is_valid_season(self, Val(bd.check_in)).value THEN Returned(FALSE)
        ELSE IF self.day_of_week # "all" /\ has_in
                /\ is_valid_day(self, Val(bd.check_in)).raised
            THEN is_valid_day(self, Val(bd.check_in))
        ELSE IF self.day_of_week # "all" /\ has_in
                /\ ~is_valid_day(self, Val(bd.check_in)).value THEN Returned(FALSE)
        ELSE Returned(TRUE)

\* target_rooms is a text column: kind "null" (NULL), "blank" (''), "object"
\* (a JSON object; room_types and room_ids are its lists, empty when the key
\* is missing), "not_json" (json.loads raises) or "not_object" (JSON that is
\* no object: .get raises).  Only "null" and "blank" are falsy.  Kind
\* "misshapen" is a JSON object whose room_types and room_ids are themselves
\* JSON objects instead of arrays: `in` then tests their keys (room_types and
\* room_ids hold the keys) and nothing raises.
TargetRoomsTruthy(tr) == tr.kind \notin {"null", "blank"}

is_valid_for_room(self, room) ==
    LET tr == self.target_rooms
    IN  IF ~TargetRoomsTruthy(tr) THEN TRUE
        ELSE IF tr.kind \in {"not_json", "not_object"} THEN TRUE     \* the bare except
        ELSE IF tr.room_types # {} /\ room.room_type \in tr.room_types THEN TRUE
        ELSE IF tr.room_ids # {} /\ room.id \in tr.room_ids THEN TRUE
        ELSE FALSE

\* is_valid without its is_active test
is_valid_skip_active(self, user, booking_data, room) ==
    IF ~(self.valid_from <= now /\ now <= self.valid_until)
        THEN Returned(<<FALSE, "Offer has expired">>)
    ELSE IF Truthy(self.usage_limit) /\ self.used_count >= Val(self.usage_limit)
        THEN Returned(<<FALSE, "Offer usage limit reached">>)
    ELSE IF ~IsNone(user) /\ self.target_user_type # "all"
            /\ ~is_valid_for_user(self, Val(user))
        THEN Returned(<<FALSE, "Offer not applicable for your account type">>)
    ELSE IF ~IsNone(booking_data) /\ is_valid_for_booking(self, Val(booking_data)).raised
        THEN is_valid_for_booking(self, Val(booking_data))
    ELSE IF ~IsNone(booking_data) /\ ~is_valid_for_booking(self, Val(booking_data)).value
        THEN Returned(<<FALSE, "Offer not applicable for this booking">>)
    ELSE IF ~IsNone(room) /\ TargetRoomsTruthy(self.target_rooms)
            /\ ~is_valid_for_room(self, Val(room))
        THEN Returned(<<FALSE, "Offer not applicable for this room">>)
    ELSE Returned(<<TRUE, "Valid">>)

\* is_valid returns the tuple (bool, reason); user, booking_data and room
\* are optional
is_valid(self, user, booking_data, room) ==
    IF ~self.is_active THEN Returned(<<FALSE, "Offer is not active">>)
    ELSE IF ~(self.valid_from <= now /\ now <= self.valid_until)
        THEN Returned(<<FALSE, "Offer has expired">>)
    ELSE IF Truthy(self.usage_limit) /\ self.used_count >= Val(self.usage_limit)
        THEN Returned(<<FALSE, "Offer usage limit reached">>)
    ELSE IF ~IsNone(user) /\ self.target_user_type # "all"
            /\ ~is_valid_for_user(self, Val(user))
        THEN Returned(<<FALSE, "Offer not applicable for your account type">>)
    ELSE IF ~IsNone(booking_data) /\ is_valid_for_booking(self, Val(booking_data)).raised
        THEN is_valid_for_booking(self, Val(booking_data))
    ELSE IF ~IsNone(booking_data) /\ ~is_valid_for_booking(self, Val(booking_data)).value
        THEN Returned(<<FALSE, "Offer not applicable for this booking">>)
    ELSE IF ~IsNone(room) /\ TargetRoomsTruthy(self.target_rooms)
            /\ ~is_valid_for_room(self, Val(room))
        THEN Returned(<<FALSE, "Offer not applicable for this room">>)
    ELSE Returned(<<TRUE, "Valid">>)

\* a rational <<num, den>> with den > 0, in hundredths
Rat(num, den) == IF den < 0 THEN <<-num, -den>> ELSE <<num, den>>

RECURSIVE GCD(_, _)
GCD(a, b) == IF b = 0 THEN (IF a < 0 THEN -a ELSE a) ELSE GCD(b, a % (IF b < 0 THEN -b ELSE b))

\* amount * (discount_value / 100), both held in hundredths: the exact
\* quotient amount * value / 10000, with value / 10000 in lowest terms
Percent(amount, value) ==
    LET g == GCD(value, 10000)
    IN  Rat(amount * (value \div g), 10000 \div g)
RatMin(a, b) == IF a[1] * b[2] <= b[1] * a[2] THEN a ELSE b

\* calculate_stay_x_pay_y_discount with the stay threshold at 3 nights
calculate_stay_x_pay_y_discount_from3(self, amount, nights) ==
    IF self.discount_value >= nights * 100 THEN Returned(Rat(0, 1))
    ELSE IF nights = 0 THEN Raised("ZeroDivisionError")
    ELSE IF nights >= 3 THEN Returned(Rat(amount, nights))
    ELSE Returned(Rat(0, 1))

\* returns the discount before rounding, or raises
calculate_stay_x_pay_y_discount(self, amount, nights) ==
    IF self.discount_value >= nights * 100 THEN Returned(Rat(0, 1))
    ELSE IF nights = 0 THEN Raised("ZeroDivisionError")
    ELSE IF nights >= 4 THEN Returned(Rat(amount, nights))
    ELSE Returned(Rat(0, 1))

calculate_free_night_discount(self, amount, nights) ==
    LET min_nights == self.min_stay_nights
    IN  IF nights = 0 THEN Raised("ZeroDivisionError")
        ELSE IF nights >= min_nights
            THEN IF min_nights = 0 THEN Raised("ZeroDivisionError")
                 ELSE Returned(Rat(TruncDiv(nights, min_nights) * amount, nights))
        ELSE Returned(Rat(0, 1))

\* amount in hundredths; the result is Returned(hundredths) or Raised
calculate_discount(self, amount, nights) ==
    LET discount ==
            IF self.discount_type = "percentage"
                THEN LET d == Percent(amount, self.discount_value)
                     IN  IF Truthy(self.max_discount)
                            THEN Returned(RatMin(d, Rat(Val(self.max_discount), 1)))
                            ELSE Returned(d)
            ELSE IF self.discount_type = "fixed"
                THEN Returned(Rat(Min(self.discount_value, amount), 1))
            ELSE IF self.discount_type = "stay_x_pay_y"
                THEN calculate_stay_x_pay_y_discount(self, amount, nights)
            ELSE IF self.discount_type = "free_night"
                THEN calculate_free_night_discount(self, amount, nights)
            ELSE Returned(Rat(0, 1))
    IN  IF discount.raised THEN discount
        ELSE Returned(Round2(discount.value[1], discount.value[2]))

\* Offer.increment_usage, applied to the offers table
\* an increment that counts a use twice
increment_usage_twice(table, id) == [table EXCEPT ![id].used_count = @ + 2]

increment_usage(table, id) == [table EXCEPT ![id].used_count = @ + 1]

\* the ids of S ordered by priority descending (rows of equal priority in id
\* order, the order the table returns them in)
RECURSIVE OrderByPriorityDesc(_)
OrderByPriorityDesc(S) ==
    IF S = {} THEN << >>
    ELSE LET first == CHOOSE i \in S :
                \A j \in S : \/ offers[i].priority > offers[j].priority
                             \/ offers[i].priority = offers[j].priority /\ i <= j
         IN  <<first>> \o OrderByPriorityDesc(S \ {first})

\* get_available_offers whose query leaves out the is_public filter
get_available_offers_any(user, booking_data, room) ==
    LET listed == {i \in DOMAIN offers : offers[i].is_active}
        ordered == OrderByPriorityDesc(listed)
        ok(i) == LET r == is_valid(offers[i], user, booking_data, room)
                 IN  IF r.raised THEN FALSE ELSE r.value[1]
    IN  IF \E i \in listed : is_valid(offers[i], user, booking_data, room).raised
            THEN Raised("AttributeError")
            ELSE Returned(SelectSeq(ordered, ok))

\* Offer.get_available_offers: Returned(sequence of offer ids), or Raised when
\* is_valid raises on one of the active public offers
get_available_offers(user, booking_data, room) ==
    LET listed == {i \in DOMAIN offers : offers[i].is_active /\ offers[i].is_public}
        ordered == OrderByPriorityDesc(listed)
        ok(i) == LET r == is_valid(offers[i], user, booking_data, room)
                 IN  IF r.raised THEN FALSE ELSE r.value[1]
    IN  IF \E i \in listed : is_valid(offers[i], user, booking_data, room).raised
            THEN Raised("AttributeError")
            ELSE Returned(SelectSeq(ordered, ok))

\* get_auto_apply_offers that keeps the first eight only
get_auto_apply_offers_top8(user, booking_data, room) ==
    LET available == get_available_offers(user, booking_data, room)
        auto(i) == offers[i].auto_apply
        chosen == SelectSeq(available.value, auto)
    IN  IF available.raised THEN available
        ELSE Returned(SubSeq(chosen, 1, Min(8, Len(chosen))))

\* Offer.get_auto_apply_offers
get_auto_apply_offers(user, booking_data, room) ==
    LET available == get_available_offers(user, booking_data, room)
        auto(i) == offers[i].auto_apply
    IN  IF available.raised THEN available
        ELSE Returned(SelectSeq(available.value, auto))

-----------------------------------------------------------------------------
(* utils/offer_engine.py *)

\* SmartOfferEngine._check_season_match(season_type, booking_data)
check_season_match(season_type, booking_data) ==
    IF IsNone(booking_data) \/ IsNone(Val(booking_data).check_in) THEN FALSE
    ELSE LET month == Month(Val(Val(booking_data).check_in))
         IN  IF season_type = "peak" THEN month \in {12, 1, 6, 7}
             ELSE IF season_type = "off_peak" THEN month \in {2, 3, 9, 10}
             ELSE IF season_type = "festival" THEN month \in {10, 11, 12}
             ELSE TRUE

\* SmartOfferEngine._check_day_match(day_type, check_in_date)
check_day_match(day_type, check_in_date) ==
    IF day_type = "weekend" THEN Weekday(check_in_date) >= 5
    ELSE IF day_type = "weekday" THEN Weekday(check_in_date) < 5
    ELSE TRUE

\* SmartOfferEngine._calculate_user_match_score(offer, user)
calculate_user_match_score(offer, uid) ==
    IF offer.target_user_type = "all" THEN 10
    ELSE IF offer.target_user_type = "new_user" /\ completed_bookings(uid) = 0 THEN 25
    ELSE IF offer.target_user_type = "returning_user" /\ completed_bookings(uid) >= 1 THEN 20
    ELSE IF offer.target_user_type = "vip" /\ completed_bookings(uid) >= 3 THEN 30
    ELSE -20

\* SmartOfferEngine._calculate_booking_match_score(offer, booking_data)
calculate_booking_match_score(offer, bd) ==
    LET dated == ~IsNone(bd.check_in) /\ ~IsNone(bd.check_out)
        nights == Val(bd.check_out) - Val(bd.check_in)
        stay_min == IF ~dated \/ offer.min_stay_nights = 0 THEN 0
                    ELSE IF nights >= offer.min_stay_nights THEN 15 ELSE -10
        stay_max == IF ~dated \/ ~Truthy(offer.max_stay_nights) THEN 0
                    ELSE IF nights <= Val(offer.max_stay_nights) THEN 10 ELSE -10
        amount == IF offer.min_amount = 0 THEN 0
                  ELSE IF bd.total_amount >= offer.min_amount THEN 12 ELSE -8
    IN  stay_min + stay_max + amount

\* SmartOfferEngine._calculate_room_match_score(offer, room)
calculate_room_match_score(offer, room) ==
    LET tr == offer.target_rooms
    IN  IF tr.kind \in {"not_json", "not_object"} THEN 0           \* except: pass
        ELSE IF tr.room_ids # {} /\ room.id \in tr.room_ids THEN 30
        ELSE IF tr.room_types # {} /\ room.room_type \in tr.room_types THEN 25
        ELSE IF tr.room_types # {} \/ tr.room_ids # {} THEN -15
        ELSE 0

\* SmartOfferEngine._calculate_timing_match_score(offer, booking_data);
\* booking_data is optional
calculate_timing_match_score(offer, booking_data) ==
    LET has_in == ~IsNone(booking_data) /\ ~IsNone(Val(booking_data).check_in)
        days == Val(Val(booking_data).check_in) - Today
        season == IF offer.season_type = "all" THEN 0
                  ELSE IF check_season_match(offer.season_type, booking_data) THEN 15 ELSE -10
        day == IF offer.day_of_week = "all" \/ ~has_in THEN 0
               ELSE IF check_day_match(offer.day_of_week, Val(Val(booking_data).check_in))
                   THEN 12 ELSE -8
        lead_min == IF ~has_in \/ ~(offer.advance_booking_days > 0) THEN 0
                    ELSE IF days >= offer.advance_booking_days THEN 10 ELSE -8
        lead_max == IF ~has_in \/ ~Truthy(offer.max_advance_booking_days) THEN 0
                    ELSE IF days <= Val(offer.max_advance_booking_days) THEN 8 ELSE -6
        last_minute == IF has_in /\ days <= 3 /\ offer.advance_booking_days <= 3 THEN 20 ELSE 0
    IN  season + day + lead_min + lead_max + last_minute

\* the terms _calculate_offer_score adds up; a term it skips is 0
OfferScoreTerms(offer, user, booking_data, room) ==
    [base |-> offer.priority * 10,
     user_match_score |->
        IF offer.target_user_type # "all" /\ ~IsNone(user)
            THEN calculate_user_match_score(offer, Val(user)) ELSE 0,
     booking_match_score |->
        IF ~IsNone(booking_data)
            THEN calculate_booking_match_score(offer, Val(booking_data)) ELSE 0,
     room_match_score |->
        IF ~IsNone(room) /\ TargetRoomsTruthy(offer.target_rooms)
            THEN calculate_room_match_score(offer, Val(room)) ELSE 0,
     timing_match_score |-> calculate_timing_match_score(offer, booking_data),
     bonus |-> IF offer.auto_apply THEN 15 ELSE 0]

\* a score that remembers whether a call was made before
calculate_offer_score_recalling(offer, user, booking_data, room) ==
    LET t == OfferScoreTerms(offer, user, booking_data, room)
    IN  Max(t.base + t.user_match_score + t.booking_match_score + t.room_match_score
            + t.timing_match_score + t.bonus, 0)
        + (IF response.handler = "none" THEN 0 ELSE 1)

\* SmartOfferEngine._calculate_offer_score(offer, user, booking_data, room)
calculate_offer_score(offer, user, booking_data, room) ==
    LET t == OfferScoreTerms(offer, user, booking_data, room)
    IN  Max(t.base + t.user_match_score + t.booking_match_score + t.room_match_score
            + t.timing_match_score + t.bonus, 0)

\* list.sort(key=lambda x: x[1], reverse=True) on the (offer, score) pairs:
\* descending, elements of equal score keep the order they had in q; score
\* maps an offer id to its score
RECURSIVE SortByScoreDesc(_, _)
SortByScoreDesc(q, score) ==
    IF q = << >> THEN << >>
    ELSE LET k == CHOOSE i \in DOMAIN q :
                    /\ \A j \in DOMAIN q : score[q[j]] <= score[q[i]]
                    /\ \A j \in 1..(i - 1) : score[q[j]] < score[q[i]]
             rest == [j \in 1..(Len(q) - 1) |-> IF j < k THEN q[j] ELSE q[j + 1]]
         IN  <<q[k]>> \o SortByScoreDesc(rest, score)

\* the scored_offers list: the score of every offer of all_offers
ScoredOffers(all_offers, user, booking_data, room) ==
    [i \in {all_offers[k] : k \in DOMAIN all_offers} |->
        calculate_offer_score(offers[i], user, booking_data, room)]

\* scored_offers[:8]
TopOffers == 8

\* generate_personalized_offers without the slice
generate_personalized_offers_uncapped(user, booking_data, room) ==
    LET all_offers == get_available_offers(user, booking_data, room)
    IN  IF all_offers.raised THEN all_offers
        ELSE Returned(SortByScoreDesc(all_offers.value,
                ScoredOffers(all_offers.value, user, booking_data, room)))

\* SmartOfferEngine.generate_personalized_offers(user, booking_data, room)
generate_personalized_offers(user, booking_data, room) ==
    LET all_offers == get_available_offers(user, booking_data, room)
        sorted == SortByScoreDesc(all_offers.value,
                    ScoredOffers(all_offers.value, user, booking_data, room))
    IN  IF all_offers.raised THEN all_offers
        ELSE Returned(SubSeq(sorted, 1, Min(TopOffers, Len(sorted))))

-----------------------------------------------------------------------------
(* Rows *)

\* an offers row as add_offer stores it when only the required inputs are given
BaseOffer ==
    [code |-> "BASE", discount_type |-> "percentage", discount_value |-> 1000,
     min_amount |-> 0, max_discount |-> None,
     valid_from |-> Midnight(0), valid_until |-> Midnight(364),
     usage_limit |-> None, used_count |-> 0,
     is_active |-> TRUE, is_public |-> TRUE,
     target_rooms |-> [kind |-> "object", room_types |-> {}, room_ids |-> {}],
     target_user_type |-> "all", min_stay_nights |-> 1, max_stay_nights |-> None,
     advance_booking_days |-> 0, max_advance_booking_days |-> None,
     season_type |-> "all", day_of_week |-> "all",
     priority |-> 1, auto_apply |-> FALSE, created_at |-> Midnight(0)]

TargetRooms(kind, types, ids) == [kind |-> kind, room_types |-> types, room_ids |-> ids]

\* a bookings row
BookingRow(uid, rid, ci, co, total, discount, final, coupon, status, pay) ==
    [user_id |-> uid, room_id |-> rid, check_in |-> ci, check_out |-> co,
     total_nights |-> co - ci, total_amount |-> total, discount_amount |-> discount,
     final_amount |-> final, coupon_code |-> coupon, status |-> status,
     payment_status |-> pay, razorpay_order_id |-> FALSE]

\* the booking_data dict the handlers pass to the offer engine
BookingData(ci, co, total) == [check_in |-> ci, check_out |-> co, total_amount |-> total]

\* the rooms table
Rooms ==
    [id \in {1, 2} |->
        IF id = 1 THEN [id |-> 1, room_type |-> "deluxe", price |-> 400000]
                  ELSE [id |-> 2, room_type |-> "suite", price |-> 1000000]]

-----------------------------------------------------------------------------
(* Evaluation of is_valid on one stored offer *)

\* the largest number of completed bookings of a user of the evaluation
MaxCompleted == 3

\* user k has k - 1 bookings with status 'completed' and one cancelled booking
EvalUsers == 1..(MaxCompleted + 1)
Completed(k) == k - 1

RECURSIVE PastBookings(_, _)
PastBookings(k, n) ==
    IF k = 0 THEN << >>
    ELSE IF n = 0
        THEN PastBookings(k - 1, IF k = 1 THEN 0 ELSE Completed(k - 1))
             \o <<BookingRow(k, 1, 10 * k, 10 * k + 1, 472000, 0, 472000, None,
                             "cancelled", "pending")>>
    ELSE PastBookings(k, n - 1)
         \o <<BookingRow(k, 2, 20 * k + n, 20 * k + n + 1, 1180000, 0, 1180000, None,
                         "completed", "paid")>>

EvalBookings == PastBookings(MaxCompleted + 1, Completed(MaxCompleted + 1))

\* 2026-06-15, noon
EvalNow == 2 * 165 + 1

\* booking contexts: July (Sunday 2026-07-05), March (Friday 2027-03-12),
\* a short-notice four-night stay below 5000, and one without dates
EvalContexts ==
    {None,
     Some(BookingData(Some(185), Some(187), 800000)),
     Some(BookingData(Some(435), Some(437), 800000)),
     Some(BookingData(Some(166), Some(170), 300000)),
     Some(BookingData(None, None, 300000))}

EvalRooms == {None, Some(Rooms[1]), Some(Rooms[2])}

ValidityOffers ==
    {[BaseOffer EXCEPT
        !.is_active = active,
        !.valid_until = until,
        !.usage_limit = usage[1], !.used_count = usage[2],
        !.target_user_type = tut,
        !.min_amount = crit[1], !.min_stay_nights = crit[2], !.max_stay_nights = crit[3],
        !.advance_booking_days = adv[1], !.max_advance_booking_days = adv[2],
        !.season_type = when[1], !.day_of_week = when[2],
        !.target_rooms = tr] :
        active \in BOOLEAN,
        until \in {Midnight(364), Midnight(100)},
        usage \in {<<None, 0>>, <<Some(2), 1>>, <<Some(2), 2>>, <<Some(0), 1>>},
        tut \in {"all", "new_user", "returning_user", "vip", "staff"},
        crit \in {<<0, 1, None>>, <<500000, 2, Some(3)>>},
        adv \in {<<0, None>>, <<0, Some(10)>>, <<5, Some(30)>>},
        when \in {<<"all", "all">>, <<"peak", "all">>, <<"off_peak", "all">>,
                  <<"festival", "all">>, <<"all", "weekend">>},
        tr \in {TargetRooms("null", {}, {}), TargetRooms("object", {}, {}),
                TargetRooms("object", {"deluxe"}, {}), TargetRooms("object", {}, {2}),
                TargetRooms("not_json", {}, {})}}

InitValid ==
    /\ offers \in {[id \in {1} |-> o] : o \in ValidityOffers}
    /\ bookings = EvalBookings
    /\ payments = << >>
    /\ applied = [i \in DOMAIN EvalBookings |-> << >>]
    /\ now = EvalNow
    /\ response = [handler |-> "none"]
    /\ requests = << >>

\* offer.is_valid(user, booking_data, room) on the stored offer; one call is
\* evaluated per behaviour (the call changes no stored state)
EvalIsValid ==
    \E user \in {None} \cup {Some(u) : u \in EvalUsers},
       bd \in EvalContexts, room \in EvalRooms :
        /\ response.handler = "none"
        /\ response' = [handler |-> "is_valid", offer |-> 1, user |-> user,
                        booking_data |-> bd, room |-> room,
                        result |-> is_valid(offers[1], user, bd, room)]
        /\ UNCHANGED <<offers, bookings, payments, applied, now, requests>>

NextValid == EvalIsValid

SpecValid == InitValid /\ [][NextValid]_vars

-----------------------------------------------------------------------------
(* Evaluation of is_valid and of the relevance score on one stored offer *)

\* stored offers over the fields the score reads, with every form of the
\* target_rooms text
ScoreOffers ==
    {[BaseOffer EXCEPT
        !.target_user_type = tut,
        !.min_amount = crit[1], !.min_stay_nights = crit[2], !.max_stay_nights = crit[3],
        !.advance_booking_days = adv[1], !.max_advance_booking_days = adv[2],
        !.season_type = when[1], !.day_of_week = when[2],
        !.auto_apply = auto,
        !.target_rooms = tr] :
        tut \in {"all", "new_user", "vip"},
        crit \in {<<0, 1, None>>, <<500000, 2, Some(3)>>},
        adv \in {<<0, None>>, <<0, Some(10)>>, <<5, Some(30)>>},
        when \in {<<"all", "all">>, <<"peak", "all">>, <<"all", "weekend">>},
        auto \in BOOLEAN,
        tr \in {TargetRooms("null", {}, {}), TargetRooms("blank", {}, {}),
                TargetRooms("object", {}, {}), TargetRooms("object", {"deluxe"}, {}),
                TargetRooms("object", {}, {2}), TargetRooms("not_json", {}, {}),
                TargetRooms("not_object", {}, {}), TargetRooms("misshapen", {"suite"}, {})}}

InitScore ==
    /\ offers \in {[id \in {1} |-> o] : o \in ScoreOffers}
    /\ bookings = EvalBookings
    /\ payments = << >>
    /\ applied = [i \in DOMAIN EvalBookings |-> << >>]
    /\ now = EvalNow
    /\ response = [handler |-> "none"]
    /\ requests = << >>

\* SmartOfferEngine._calculate_offer_score(offer, user, booking_data, room)
\* on the stored offer, with the terms it added; one call is evaluated per
\* behaviour (the call changes no stored state)
EvalOfferScore ==
    \E user \in {None} \cup {Some(u) : u \in EvalUsers},
       bd \in EvalContexts, room \in EvalRooms :
        /\ response.handler = "none"
        /\ response' = [handler |-> "calculate_offer_score", offer |-> 1, user |-> user,
                        booking_data |-> bd, room |-> room,
                        terms |-> OfferScoreTerms(offers[1], user, bd, room),
                        result |-> Returned(calculate_offer_score(offers[1], user, bd, room))]
        /\ UNCHANGED <<offers, bookings, payments, applied, now, requests>>

\* the same call once more, with the arguments of the first
EvalOfferScoreAgain ==
    /\ response.handler = "calculate_offer_score"
    /\ response' = [handler |-> "calculate_offer_score_again", offer |-> 1,
                    user |-> response.user, booking_data |-> response.booking_data,
                    room |-> response.room, first |-> response.result,
                    result |-> Returned(calculate_offer_score(offers[1], response.user,
                                            response.booking_data, response.room))]
    /\ UNCHANGED <<offers, bookings, payments, applied, now, requests>>

NextScore ==
    \/ EvalIsValid
    \/ EvalOfferScore
    \/ EvalOfferScoreAgain

SpecScore == InitScore /\ [][NextScore]_vars

-----------------------------------------------------------------------------
(* Evaluation of calculate_discount on one stored offer *)

\* the longest stay of the evaluation, in nights
MaxNights == 7

DiscountOffers ==
    {[BaseOffer EXCEPT
        !.discount_type = dt, !.discount_value = dv,
        !.max_discount = md, !.min_stay_nights = msn] :
        dt \in {"percentage", "fixed", "stay_x_pay_y", "free_night", "bogo"},
        dv \in {0, 300, 2000, 15000, 200000},
        md \in {None, Some(50000), Some(2000000)},
        msn \in {0, 1, 3}}

EvalAmounts == {0, 33333, 150000, 1000000}

InitDiscount ==
    /\ offers \in {[id \in {1} |-> o] : o \in DiscountOffers}
    /\ bookings = << >>
    /\ payments = << >>
    /\ applied = << >>
    /\ now = EvalNow
    /\ response = [handler |-> "none"]
    /\ requests = << >>

\* offer.calculate_discount(amount, nights) on the stored offer; one call is
\* evaluated per behaviour (the call changes no stored state)
EvalCalculateDiscount ==
    \E amount \in EvalAmounts, nights \in 1..MaxNights :
        /\ response.handler = "none"
        /\ response' = [handler |-> "calculate_discount", offer |-> 1,
                        amount |-> amount, nights |-> nights,
                        result |-> calculate_discount(offers[1], amount, nights)]
        /\ UNCHANGED <<offers, bookings, payments, applied, now, requests>>

NextDiscount == EvalCalculateDiscount

SpecDiscount == InitDiscount /\ [][NextDiscount]_vars

-----------------------------------------------------------------------------
(* Evaluation of the offer selection on a catalog *)

\* the number of offers in the catalog
MaxCatalog == 9

\* the i-th offer the administrator added: auto-applied, for deluxe rooms
PlainOffer(i) ==
    [BaseOffer EXCEPT !.code = "OFFER" \o ToString(i), !.auto_apply = TRUE,
                      !.target_rooms = TargetRooms("object", {"deluxe"}, {}),
                      !.created_at = Midnight(i)]

OfferKinds ==
    {"plain", "inactive", "hidden", "manual", "urgent", "vip", "costly", "peak", "untargeted"}

\* offer o as the administrator stored it for each kind
OfKind(o, kind) ==
    IF kind = "inactive" THEN [o EXCEPT !.is_active = FALSE]
    ELSE IF kind = "hidden" THEN [o EXCEPT !.is_public = FALSE]
    ELSE IF kind = "manual" THEN [o EXCEPT !.auto_apply = FALSE]
    ELSE IF kind = "urgent" THEN [o EXCEPT !.priority = 3]
    ELSE IF kind = "vip" THEN [o EXCEPT !.target_user_type = "vip"]
    ELSE IF kind = "costly" THEN [o EXCEPT !.min_amount = 2000000]
    ELSE IF kind = "peak" THEN [o EXCEPT !.season_type = "peak"]
    ELSE IF kind = "untargeted" THEN [o EXCEPT !.target_rooms = TargetRooms("object", {}, {})]
    ELSE o

\* the catalogs: plain offers, of which any one and the last added may be of
\* another kind
Catalogs ==
    {[i \in 1..MaxCatalog |->
        OfKind(PlainOffer(i), IF i = MaxCatalog THEN kb ELSE IF i = a THEN ka ELSE "plain")] :
        a \in 1..MaxCatalog, ka \in OfferKinds, kb \in OfferKinds}

\* the booking contexts get_offers and book_room build: none, one with both
\* dates, one whose dates are missing
EngineContexts ==
    {None, Some(BookingData(Some(166), Some(168), 944000)),
     Some(BookingData(None, None, 944000))}

\* no user, or a guest who has no booking yet
EngineUsers == {None, Some(1)}

InitEngine ==
    /\ offers \in Catalogs
    /\ bookings = << >>
    /\ payments = << >>
    /\ applied = << >>
    /\ now = EvalNow
    /\ response = [handler |-> "none"]
    /\ requests = << >>

\* SmartOfferEngine.generate_personalized_offers(user, booking_data, room);
\* one call is evaluated per behaviour (the call changes no stored state)
EvalGenerate ==
    \E user \in EngineUsers, bd \in EngineContexts, room \in EvalRooms :
        /\ response.handler = "none"
        /\ response' = [handler |-> "generate_personalized_offers", user |-> user,
                        booking_data |-> bd, room |-> room,
                        result |-> generate_personalized_offers(user, bd, room)]
        /\ UNCHANGED <<offers, bookings, payments, applied, now, requests>>

\* Offer.get_auto_apply_offers(user, booking_data, room)
EvalAutoApply ==
    \E user \in EngineUsers, bd \in EngineContexts, room \in EvalRooms :
        /\ response.handler = "none"
        /\ response' = [handler |-> "get_auto_apply_offers", user |-> user,
                        booking_data |-> bd, room |-> room,
                        result |-> get_auto_apply_offers(user, bd, room)]
        /\ UNCHANGED <<offers, bookings, payments, applied, now, requests>>

NextEngine ==
    \/ EvalGenerate
    \/ EvalAutoApply

SpecEngine == InitEngine /\ [][NextEngine]_vars

-----------------------------------------------------------------------------
(* models/room.py, models/booking.py *)

\* Room.is_available(check_in, check_out)
is_available(rid, check_in, check_out) ==
    ~\E i \in DOMAIN bookings :
        /\ bookings[i].room_id = rid
        /\ bookings[i].status \in {"confirmed", "pending"}
        /\ bookings[i].check_in < check_out
        /\ bookings[i].check_out > check_in

\* Booking.calculate_total_nights on a row whose dates are optional
calculate_total_nights(check_in, check_out) ==
    IF IsNone(check_in) \/ IsNone(check_out) THEN Raised("TypeError")
    ELSE Returned(Val(check_out) - Val(check_in))

\* Booking.calculate_total_amount(room_price): (base, tax, total)
calculate_total_amount(check_in, check_out, room_price) ==
    LET nights == calculate_total_nights(check_in, check_out)
    IN  IF nights.raised THEN nights
        ELSE LET base == room_price * nights.value
                 tax == (base * 18) \div 100
             IN  Returned(<<base, tax, base + tax>>)

-----------------------------------------------------------------------------
(* blueprints/booking.py, blueprints/api.py *)

\* bool(x) of a tuple: true unless the tuple is empty
PyTruthy(t) == Len(t) # 0

\* Offer.query.filter_by(code=code).first()
OfferByCode(code) ==
    LET found == {i \in DOMAIN offers : offers[i].code = code}
    IN  IF found = {} THEN None ELSE Some(CHOOSE i \in found : \A j \in found : i <= j)

\* the test `offer and offer.is_valid(...)` of the coupon handlers, given what
\* is_valid returned
CouponAccepted(verdict) == PyTruthy(verdict.value)

\* the sum that keeps the last discount only (= instead of +=)
LastOnly(q) == IF q = << >> THEN 0 ELSE q[Len(q)]

RECURSIVE SumSeq(_)
SumSeq(q) == IF q = << >> THEN 0 ELSE Head(q) + SumSeq(Tail(q))

RECURSIVE IncrementAll(_, _)
IncrementAll(table, ids) ==
    IF ids = << >> THEN table
    ELSE IncrementAll(increment_usage(table, Head(ids)), Tail(ids))

\* the most bookings the model lets the requests create
MaxBookings == 1

Guests == {1}
StaffUser == 2
is_staff(uid) == uid = StaffUser

\* (check_in, check_out) of the booking form, in days from today; the last
\* two are refused by the date validation
Stays == {<<1, 3>>, <<-1, 1>>, <<3, 3>>}

CouponInputs == {"", "AUTO10", "FLAT500", "NOPE"}

\* book_room(room_id) by user uid; limit is the number of bookings up to
\* which the model lets the form store one more
book_room_within(limit, uid, rid, stay, method, coupon_code, gateway_ok) ==
    LET room == Rooms[rid]
        check_in == Today + stay[1]
        check_out == Today + stay[2]
        nights == check_out - check_in
        base_amount == room.price * nights
        tax_amount == (base_amount * 18) \div 100
        total_amount == base_amount + tax_amount
        booking_data == BookingData(Some(check_in), Some(check_out), total_amount)
        auto_apply_offers == get_auto_apply_offers(Some(uid), Some(booking_data), Some(room))
        auto_discounts == [k \in DOMAIN auto_apply_offers.value |->
            calculate_discount(offers[auto_apply_offers.value[k]], total_amount, nights)]
        discount_amount == SumSeq([k \in DOMAIN auto_discounts |-> auto_discounts[k].value])
        coupon == IF coupon_code = "" THEN None ELSE OfferByCode(coupon_code)
        verdict == is_valid(offers[Val(coupon)], Some(uid), Some(booking_data), Some(room))
        manual == calculate_discount(offers[Val(coupon)], total_amount, nights)
        personalized_offers == generate_personalized_offers(Some(uid), Some(booking_data), None)
        fail(flash) == /\ response' = [handler |-> "book_room", status |-> 302, flash |-> flash]
                       /\ UNCHANGED <<offers, bookings, payments, applied, now, requests>>
        error == /\ response' = [handler |-> "book_room", status |-> 500]
                 /\ UNCHANGED <<offers, bookings, payments, applied, now, requests>>
        store(manual_discount, final_amount, applied_offers, flash) ==
            /\ bookings' = Append(bookings,
                    [BookingRow(uid, rid, check_in, check_out, total_amount,
                                discount_amount + manual_discount, final_amount,
                                coupon_code, "pending", "pending")
                        EXCEPT !.razorpay_order_id = gateway_ok])
            /\ applied' = Append(applied, applied_offers)
            /\ offers' = IncrementAll(offers, applied_offers)
            /\ response' = [handler |-> "book_room", status |-> 302, flash |-> flash,
                            booking_id |-> Len(bookings) + 1,
                            location |-> IF gateway_ok THEN "payment" ELSE "room_detail"]
            /\ UNCHANGED <<payments, now, requests>>
    IN  IF check_in < Today THEN fail("Check-in date cannot be in the past.")
        ELSE IF check_out <= check_in THEN fail("Check-out date must be after check-in date.")
        ELSE IF ~is_available(rid, check_in, check_out) THEN fail("not available")
        ELSE IF auto_apply_offers.raised THEN error
        ELSE IF \E k \in DOMAIN auto_discounts : auto_discounts[k].raised THEN error
        ELSE IF method = "POST"
            THEN /\ Len(bookings) < limit
                 /\ IF coupon_code # "" /\ ~IsNone(coupon)
                        THEN IF verdict.raised THEN error
                             ELSE IF CouponAccepted(verdict)
                                 THEN IF manual.raised THEN error
                                      ELSE store(manual.value,
                                                 total_amount - discount_amount - manual.value,
                                                 auto_apply_offers.value \o <<Val(coupon)>>,
                                                 "Coupon applied!")
                             ELSE store(0, Max(total_amount - discount_amount, 0),
                                        auto_apply_offers.value,
                                        "Invalid or expired coupon code.")
                    ELSE IF coupon_code # ""
                        THEN store(0, Max(total_amount - discount_amount, 0),
                                   auto_apply_offers.value, "Invalid or expired coupon code.")
                    ELSE store(0, Max(total_amount - discount_amount, 0),
                               auto_apply_offers.value, "")
        ELSE IF personalized_offers.raised THEN error
        ELSE /\ response' = [handler |-> "book_room", status |-> 200,
                             nights |-> nights, total_amount |-> total_amount,
                             discount_amount |-> discount_amount,
                             final_amount |-> Max(total_amount - discount_amount, 0),
                             auto_apply_offers |-> auto_apply_offers.value,
                             personalized_offers |-> personalized_offers.value]
             /\ UNCHANGED <<offers, bookings, payments, applied, now, requests>>

book_room(uid, rid, stay, method, coupon_code, gateway_ok) ==
    book_room_within(MaxBookings, uid, rid, stay, method, coupon_code, gateway_ok)

\* the requests made of book_room: the page is fetched for every stay; the
\* form is posted with every coupon input for a well-formed stay, and without
\* one for a stay the date checks refuse
BookRoomRequests ==
    [method : {"GET"}, stay : Stays, coupon_code : {""}, gateway_ok : {FALSE}]
    \cup [method : {"POST"}, stay : {s \in Stays : s[1] >= 0 /\ s[2] > s[1]},
          coupon_code : CouponInputs, gateway_ok : BOOLEAN]
    \cup [method : {"POST"}, stay : {s \in Stays : s[1] < 0 \/ s[2] <= s[1]},
          coupon_code : {""}, gateway_ok : {FALSE}]

BookRoom ==
    \E uid \in Guests, rid \in {1}, r \in BookRoomRequests :
        book_room(uid, rid, r.stay, r.method, r.coupon_code, r.gateway_ok)

\* process_payment(booking_id) by user uid; verified is whether the posted
\* payment details are present and pass verify_payment_signature, gateway_ok
\* whether create_razorpay_order returns an order
process_payment(uid, bid, method, verified, gateway_ok) ==
    LET booking == bookings[bid]
        reply(outcome) == response' = [handler |-> "process_payment", outcome |-> outcome]
        ordered == [bookings EXCEPT ![bid].razorpay_order_id = TRUE]
    IN  IF booking.user_id # uid
            THEN reply("Access denied.") /\ UNCHANGED <<offers, bookings, payments, applied, now, requests>>
        ELSE IF booking.payment_status = "paid"
            THEN reply("Payment already completed for this booking.")
                 /\ UNCHANGED <<offers, bookings, payments, applied, now, requests>>
        ELSE IF ~booking.razorpay_order_id /\ ~gateway_ok
            THEN reply("Payment gateway error. Please try again.")
                 /\ UNCHANGED <<offers, bookings, payments, applied, now, requests>>
        ELSE IF method = "POST" /\ verified
            THEN /\ bookings' = [ordered EXCEPT ![bid].payment_status = "paid",
                                                ![bid].status = "confirmed"]
                 /\ payments' = Append(payments,
                        [booking_id |-> bid, amount |-> booking.final_amount,
                         payment_status |-> "completed"])
                 /\ reply("Payment successful! Your booking is confirmed.")
                 /\ UNCHANGED <<offers, applied, now, requests>>
        ELSE /\ bookings' = ordered
             /\ reply(IF method = "POST" THEN "Payment verification failed. Please try again."
                      ELSE "payment.html")
             /\ UNCHANGED <<offers, payments, applied, now, requests>>

\* the requests made of process_payment: the owner fetches the page and posts
\* payment details; the staff user, who owns no booking, fetches the page
ProcessPaymentRequests ==
    [uid : Guests, method : {"GET"}, verified : {FALSE}, gateway_ok : BOOLEAN]
    \cup [uid : Guests, method : {"POST"}, verified : BOOLEAN, gateway_ok : BOOLEAN]
    \cup [uid : {StaffUser}, method : {"GET"}, verified : {FALSE}, gateway_ok : {TRUE}]

ProcessPayment ==
    \E bid \in DOMAIN bookings, r \in ProcessPaymentRequests :
        process_payment(r.uid, bid, r.method, r.verified, r.gateway_ok)

\* cancel_booking(booking_id) by user uid
cancel_booking(uid, bid) ==
    LET booking == bookings[bid]
        reply(flash) == response' = [handler |-> "cancel_booking", flash |-> flash]
    IN  IF booking.user_id # uid /\ ~is_staff(uid)
            THEN reply("Access denied.") /\ UNCHANGED <<offers, bookings, payments, applied, now, requests>>
        ELSE IF booking.status \in {"pending", "confirmed"}
            THEN /\ bookings' = [bookings EXCEPT ![bid].status = "cancelled"]
                 /\ reply("Booking cancelled successfully.")
                 /\ UNCHANGED <<offers, payments, applied, now, requests>>
        ELSE reply("Cannot cancel this booking.")
             /\ UNCHANGED <<offers, bookings, payments, applied, now, requests>>

CancelBooking ==
    \E uid \in Guests \cup {StaffUser}, bid \in DOMAIN bookings : cancel_booking(uid, bid)

\* apply_coupon: the JSON body carries coupon_code and total_amount
apply_coupon(coupon_code, total_amount) ==
    LET coupon == OfferByCode(coupon_code)
        verdict == is_valid(offers[Val(coupon)], None, None, None)
        discount == calculate_discount(offers[Val(coupon)], total_amount, 1)
        request == [handler |-> "apply_coupon", coupon_code |-> coupon_code,
                    total_amount |-> total_amount]
    IN  /\ response' =
            IF ~IsNone(coupon) /\ (verdict.raised \/ CouponAccepted(verdict))
                THEN IF verdict.raised \/ discount.raised
                        THEN request @@ [status |-> 500, success |-> FALSE]
                        ELSE request @@ [status |-> 200, success |-> TRUE,
                                         discount |-> discount.value,
                                         final_amount |-> total_amount - discount.value]
                ELSE request @@ [status |-> 200, success |-> FALSE]
        /\ UNCHANGED <<offers, bookings, payments, applied, now, requests>>

\* the totals the coupon endpoints are asked about
CouponTotals == {472000}

ApplyCoupon ==
    \E coupon_code \in CouponInputs \ {""}, total_amount \in CouponTotals :
        apply_coupon(coupon_code, total_amount)

\* validate_offer (API): coupon_code may be missing
validate_offer(coupon_code, total_amount) ==
    LET coupon == OfferByCode(coupon_code)
        offer == offers[Val(coupon)]
        verdict == is_valid(offer, None, None, None)
        discount == calculate_discount(offer, total_amount, 1)
        request == [handler |-> "validate_offer", coupon_code |-> coupon_code,
                    total_amount |-> total_amount]
    IN  /\ response' =
            IF coupon_code = "" THEN request @@ [status |-> 400, success |-> FALSE]
            ELSE IF IsNone(coupon) THEN request @@ [status |-> 404, success |-> FALSE]
            ELSE IF verdict.raised THEN request @@ [status |-> 500, success |-> FALSE]
            ELSE IF ~CouponAccepted(verdict) THEN request @@ [status |-> 400, success |-> FALSE]
            ELSE IF total_amount < offer.min_amount
                THEN request @@ [status |-> 400, success |-> FALSE]
            ELSE IF discount.raised THEN request @@ [status |-> 500, success |-> FALSE]
            ELSE request @@ [status |-> 200, success |-> TRUE, discount |-> discount.value,
                             final_amount |-> total_amount - discount.value]
        /\ UNCHANGED <<offers, bookings, payments, applied, now, requests>>

ValidateOffer ==
    \E coupon_code \in CouponInputs, total_amount \in CouponTotals :
        validate_offer(coupon_code, total_amount)

\* create_booking (API).  The price is asked of a fresh Booking(), whose
\* check_in and check_out are None.
create_booking(uid, rid, stay, coupon_code) ==
    LET check_in == Today + stay[1]
        check_out == Today + stay[2]
        nights == check_out - check_in
        amounts == calculate_total_amount(None, None, Rooms[rid].price)
        total_amount == amounts.value[3]
        coupon == IF coupon_code = "" THEN None ELSE OfferByCode(coupon_code)
        verdict == is_valid(offers[Val(coupon)], None, None, None)
        discount == calculate_discount(offers[Val(coupon)], total_amount, 1)
        taken == coupon_code # "" /\ ~IsNone(coupon) /\ ~verdict.raised /\ CouponAccepted(verdict)
        discount_amount == IF taken THEN discount.value ELSE 0
        reply(status) == response' = [handler |-> "create_booking", status |-> status]
        same == UNCHANGED <<offers, bookings, payments, applied, now, requests>>
    IN  IF rid \notin DOMAIN Rooms THEN reply(404) /\ same
        ELSE IF ~is_available(rid, check_in, check_out) THEN reply(400) /\ same
        ELSE IF amounts.raised THEN reply(500) /\ same
        ELSE IF coupon_code # "" /\ ~IsNone(coupon) /\ verdict.raised THEN reply(500) /\ same
        ELSE IF taken /\ discount.raised THEN reply(500) /\ same
        ELSE /\ Len(bookings) < MaxBookings
             /\ bookings' = Append(bookings,
                    BookingRow(uid, rid, check_in, check_out, total_amount, discount_amount,
                               total_amount - discount_amount, coupon_code,
                               "pending", "pending"))
             /\ applied' = Append(applied, IF taken THEN <<Val(coupon)>> ELSE << >>)
             /\ reply(200)
             /\ UNCHANGED <<offers, payments, now, requests>>

CreateBooking ==
    \E uid \in Guests, rid \in {1, 3}, stay \in {<<1, 3>>},
       coupon_code \in {"FLAT500"} :
        create_booking(uid, rid, stay, coupon_code)

-----------------------------------------------------------------------------
(* blueprints/admin.py *)

\* the allowed_transitions table of update_booking_status
allowed_transitions(status) ==
    IF status = "pending" THEN {"confirmed", "cancelled"}
    ELSE IF status = "confirmed" THEN {"checked_in", "cancelled"}
    ELSE IF status = "checked_in" THEN {"checked_out", "completed"}
    ELSE IF status = "checked_out" THEN {"completed"}
    ELSE {}

update_booking_status(bid, new_status) ==
    IF new_status \notin allowed_transitions(bookings[bid].status)
        THEN /\ response' = [handler |-> "update_booking_status", updated |-> FALSE]
             /\ UNCHANGED <<offers, bookings, payments, applied, now, requests>>
        ELSE /\ bookings' = [bookings EXCEPT ![bid].status = new_status]
             /\ response' = [handler |-> "update_booking_status", updated |-> TRUE]
             /\ UNCHANGED <<offers, payments, applied, now, requests>>

UpdateBookingStatus ==
    \E bid \in DOMAIN bookings,
       new_status \in {"pending", "confirmed", "checked_in", "checked_out",
                       "completed", "cancelled"} :
        update_booking_status(bid, new_status)

quick_toggle_offer(id) ==
    /\ offers' = [offers EXCEPT ![id].is_active = ~@]
    /\ response' = [handler |-> "quick_toggle_offer", offer |-> id]
    /\ UNCHANGED <<bookings, payments, applied, now, requests>>

QuickToggleOffer == \E id \in DOMAIN offers : quick_toggle_offer(id)

\* the offer form as the edit page shows it for a stored offer
FormOf(o) ==
    [code |-> o.code, discount_type |-> o.discount_type, discount_value |-> o.discount_value,
     min_amount |-> o.min_amount, max_discount |-> o.max_discount,
     valid_from |-> Some(o.valid_from), valid_until |-> o.valid_until,
     usage_limit |-> o.usage_limit, target_user_type |-> o.target_user_type,
     min_stay_nights |-> o.min_stay_nights, max_stay_nights |-> o.max_stay_nights,
     advance_booking_days |-> o.advance_booking_days,
     max_advance_booking_days |-> o.max_advance_booking_days,
     season_type |-> o.season_type, day_of_week |-> o.day_of_week,
     target_room_types |-> o.target_rooms.room_types,
     target_room_ids |-> o.target_rooms.room_ids,
     priority |-> o.priority, auto_apply |-> o.auto_apply,
     is_public |-> o.is_public, is_active |-> o.is_active]

\* edit_offer (POST) with a form that parses; used_count is not a form field
edit_offer(id, form) ==
    /\ offers' = [offers EXCEPT ![id] =
            [@ EXCEPT
                !.code = form.code,
                !.discount_type = form.discount_type,
                !.discount_value = form.discount_value,
                !.min_amount = form.min_amount,
                !.max_discount = form.max_discount,
                !.valid_from = IF IsNone(form.valid_from) THEN @ ELSE Val(form.valid_from),
                !.valid_until = form.valid_until,
                !.usage_limit = form.usage_limit,
                !.target_user_type = form.target_user_type,
                !.min_stay_nights = form.min_stay_nights,
                !.max_stay_nights = form.max_stay_nights,
                !.advance_booking_days = form.advance_booking_days,
                !.max_advance_booking_days = form.max_advance_booking_days,
                !.season_type = form.season_type,
                !.day_of_week = form.day_of_week,
                !.target_rooms = TargetRooms("object", form.target_room_types,
                                             form.target_room_ids),
                !.priority = form.priority,
                !.auto_apply = form.auto_apply,
                !.is_public = form.is_public,
                !.is_active = form.is_active]]
    /\ response' = [handler |-> "edit_offer", offer |-> id]
    /\ UNCHANGED <<bookings, payments, applied, now, requests>>

\* the usage limit the administrator enters when editing
EditLimits == {Some(1)}

EditOffer ==
    \E id \in DOMAIN offers, limit \in EditLimits :
        edit_offer(id, [FormOf(offers[id]) EXCEPT !.usage_limit = limit])

\* delete_offer that deletes whatever the usage
delete_offer_used_too(id) ==
    IF id \notin DOMAIN offers
    THEN /\ response' = [handler |-> "delete_offer", offer |-> id, status |-> 404]
         /\ UNCHANGED <<offers, bookings, payments, applied, now, requests>>
    ELSE /\ offers' = [i \in DOMAIN offers \ {id} |-> offers[i]]
         /\ response' = [handler |-> "delete_offer", offer |-> id, status |-> 302,
                         flash |-> "Offer deleted successfully!"]
         /\ UNCHANGED <<bookings, payments, applied, now, requests>>

\* delete_offer(offer_id)
delete_offer(id) ==
    IF id \notin DOMAIN offers
    THEN /\ response' = [handler |-> "delete_offer", offer |-> id, status |-> 404]
         /\ UNCHANGED <<offers, bookings, payments, applied, now, requests>>
    ELSE IF offers[id].used_count > 0
    THEN /\ response' = [handler |-> "delete_offer", offer |-> id, status |-> 302,
                         flash |-> "Cannot delete offer that has been used."]
         /\ UNCHANGED <<offers, bookings, payments, applied, now, requests>>
    ELSE /\ offers' = [i \in DOMAIN offers \ {id} |-> offers[i]]
         /\ response' = [handler |-> "delete_offer", offer |-> id, status |-> 302,
                         flash |-> "Offer deleted successfully!"]
         /\ UNCHANGED <<bookings, payments, applied, now, requests>>

\* the most offers the model lets the catalog hold
MaxOffers == 3

\* the offer ids the administrator's links name
OfferIds == 1 .. MaxOffers

DeleteOffer == \E id \in OfferIds : delete_offer(id)

\* the id the database gives a new row: one above the highest id in use
NewOfferId == IF DOMAIN offers = {} THEN 1
              ELSE 1 + CHOOSE i \in DOMAIN offers : \A j \in DOMAIN offers : j <= i

\* the row duplicate_offer builds: the listed columns are copied, code gets
\* the suffix, valid_from is the time of the request, is_active is False, and
\* used_count and created_at take the column defaults
DuplicateOf(original) ==
    [original EXCEPT !.code = original.code \o "_COPY",
                     !.valid_from = now,
                     !.is_active = FALSE,
                     !.used_count = 0,
                     !.created_at = now]

\* duplicate_offer(offer_id); the unique constraint on code makes the commit
\* raise IntegrityError when the suffixed code is taken (the 500 handler rolls
\* the session back)
duplicate_offer(id) ==
    IF id \notin DOMAIN offers
    THEN /\ response' = [handler |-> "duplicate_offer", offer |-> id, status |-> 404]
         /\ UNCHANGED <<offers, bookings, payments, applied, now, requests>>
    ELSE IF \E i \in DOMAIN offers : offers[i].code = offers[id].code \o "_COPY"
    THEN /\ response' = [handler |-> "duplicate_offer", offer |-> id, status |-> 500]
         /\ UNCHANGED <<offers, bookings, payments, applied, now, requests>>
    ELSE /\ offers' = [i \in DOMAIN offers \cup {NewOfferId} |->
                          IF i = NewOfferId THEN DuplicateOf(offers[id]) ELSE offers[i]]
         /\ response' = [handler |-> "duplicate_offer", offer |-> id, status |-> 302,
                         new_offer |-> NewOfferId]
         /\ UNCHANGED <<bookings, payments, applied, now, requests>>

DuplicateOffer ==
    \E id \in OfferIds :
        /\ \/ Cardinality(DOMAIN offers) < MaxOffers
           \/ id \notin DOMAIN offers
           \/ /\ id \in DOMAIN offers
              /\ \E i \in DOMAIN offers : offers[i].code = offers[id].code \o "_COPY"
        /\ duplicate_offer(id)

-----------------------------------------------------------------------------
(* The application *)

\* the offers the administrator has added: an auto-applied 10% offer for
\* deluxe rooms, and a hidden 500.00 coupon stored with no room selected
Catalog ==
    [id \in {1, 2} |->
        IF id = 1
            THEN [BaseOffer EXCEPT !.code = "AUTO10", !.discount_type = "percentage",
                    !.discount_value = 1000, !.auto_apply = TRUE,
                    !.usage_limit = Some(1),
                    !.target_rooms = TargetRooms("object", {"deluxe"}, {})]
            ELSE [BaseOffer EXCEPT !.code = "FLAT500", !.discount_type = "fixed",
                    !.discount_value = 50000, !.is_public = FALSE,
                    !.usage_limit = Some(2)]]

Init ==
    /\ offers = Catalog
    /\ bookings = << >>
    /\ payments = << >>
    /\ applied = << >>
    /\ now = EvalNow
    /\ response = [handler |-> "none"]
    /\ requests = << >>

Next ==
    \/ BookRoom
    \/ ProcessPayment
    \/ CancelBooking
    \/ CreateBooking
    \/ UpdateBookingStatus
    \/ QuickToggleOffer
    \/ EditOffer

Spec == Init /\ [][Next]_vars

-----------------------------------------------------------------------------
(* The offer administration next to the booking form *)

NextCatalog ==
    \/ BookRoom
    \/ DeleteOffer
    \/ QuickToggleOffer
    \/ EditOffer

SpecCatalog == Init /\ [][NextCatalog]_vars

\* the administrator duplicating, deleting and toggling offers
NextDuplicate ==
    \/ DuplicateOffer
    \/ DeleteOffer
    \/ QuickToggleOffer

SpecDuplicate == Init /\ [][NextDuplicate]_vars

-----------------------------------------------------------------------------
(* Several bookings of one room *)

\* the most bookings of the room the model lets the form store
MaxRoomBookings == 2

\* the stays asked for: the first two overlap
RoomStays == {<<1, 3>>, <<2, 4>>, <<4, 6>>}

\* the booking form posted for room 1 without a coupon code
BookRoomForm ==
    \E uid \in Guests, stay \in RoomStays, gateway_ok \in BOOLEAN :
        book_room_within(MaxRoomBookings, uid, 1, stay, "POST", "", gateway_ok)

NextRooms ==
    \/ BookRoomForm
    \/ CreateBooking
    \/ ProcessPayment
    \/ CancelBooking
    \/ UpdateBookingStatus

SpecRooms == Init /\ [][NextRooms]_vars

-----------------------------------------------------------------------------
(* The coupon handlers on a catalog whose coupon offer varies *)

\* the coupon offer FLAT500 as the administrator may have stored it: toggled
\* off, already expired, limited to one use, for returning users, and with
\* each stored form of target_rooms
CouponOffers ==
    {[Catalog[2] EXCEPT
        !.is_active = active,
        !.valid_until = until,
        !.usage_limit = limit,
        !.target_user_type = tut,
        !.target_rooms = tr] :
        active \in BOOLEAN,
        until \in {Midnight(364), Midnight(100)},
        limit \in {None, Some(1)},
        tut \in {"all", "returning_user"},
        tr \in {TargetRooms("null", {}, {}), TargetRooms("object", {}, {}),
                TargetRooms("object", {"deluxe"}, {})}}

InitCoupon ==
    /\ offers \in {[Catalog EXCEPT ![2] = o] : o \in CouponOffers}
    /\ bookings = << >>
    /\ payments = << >>
    /\ applied = << >>
    /\ now = EvalNow
    /\ response = [handler |-> "none"]
    /\ requests = << >>

NextCoupon ==
    \/ BookRoom
    \/ ApplyCoupon
    \/ ValidateOffer
    \/ CreateBooking

SpecCoupon == InitCoupon /\ [][NextCoupon]_vars

-----------------------------------------------------------------------------
(* book_room on a catalog with two auto-applied offers *)

\* the auto-applied offers the administrator may have added for deluxe rooms:
\* 500.00 off, 300.00 off, 10%, 60%, and a fixed amount above any total
AutoOffers ==
    {[BaseOffer EXCEPT !.auto_apply = TRUE,
                       !.target_rooms = TargetRooms("object", {"deluxe"}, {}),
                       !.discount_type = d[1], !.discount_value = d[2]] :
        d \in {<<"fixed", 50000>>, <<"fixed", 30000>>, <<"percentage", 1000>>,
               <<"percentage", 6000>>, <<"fixed", 2000000>>}}

InitAuto ==
    /\ offers \in {[id \in {1, 2, 3} |->
                        IF id = 1 THEN [a EXCEPT !.code = "AUTO10"]
                        ELSE IF id = 2 THEN [b EXCEPT !.code = "AUTO2"]
                        ELSE Catalog[2]] : a \in AutoOffers, b \in AutoOffers}
    /\ bookings = << >>
    /\ payments = << >>
    /\ applied = << >>
    /\ now = EvalNow
    /\ response = [handler |-> "none"]
    /\ requests = << >>

NextAuto == BookRoom

SpecAuto == InitAuto /\ [][NextAuto]_vars

-----------------------------------------------------------------------------
(* book_room posted by two requests served at the same time.  Each request  *)
(* has its own session: what it read stays in its local variables, and a   *)
(* commit makes its writes visible to the other request and expires what   *)
(* it had loaded, so that the next attribute access reads the table again. *)

\* the requests served concurrently
RaceRequests == {1, 2}

\* the stays the concurrent forms ask for; the first two overlap
RaceStays == {<<1, 3>>, <<2, 4>>, <<4, 6>>}

\* the local variables of a request that has not started
Idle ==
    [pc |-> "start", uid |-> 0, stay |-> <<0, 0>>, applied_offers |-> << >>,
     discount_amount |-> 0, final_amount |-> 0, booking_id |-> 0,
     pending |-> << >>, seen |-> 0]

\* the UPDATE that guards the counter: it adds one to the stored value and
\* only while the stored value is below the limit
increment_usage_guarded(table, id, seen) ==
    IF ~IsNone(table[id].usage_limit) /\ table[id].used_count >= Val(table[id].usage_limit)
    THEN table
    ELSE [table EXCEPT ![id].used_count = @ + 1]

\* Offer.increment_usage, the write: `self.used_count += 1` stores the value
\* the request read plus one, and the commit flushes it as
\* UPDATE offers SET used_count = <that value>
increment_usage_write(table, id, seen) == [table EXCEPT ![id].used_count = seen + 1]

\* book_room up to the construction of the booking: the date checks, the
\* availability check and the auto-applied offers, all read from the tables
\* as they are now; the form carries no coupon code
BookRoomValidate(r) ==
    /\ requests[r].pc = "start"
    /\ \E uid \in Guests, stay \in RaceStays :
        LET room == Rooms[1]
            check_in == Today + stay[1]
            check_out == Today + stay[2]
            nights == check_out - check_in
            base_amount == room.price * nights
            tax_amount == (base_amount * 18) \div 100
            total_amount == base_amount + tax_amount
            booking_data == BookingData(Some(check_in), Some(check_out), total_amount)
            auto_apply_offers == get_auto_apply_offers(Some(uid), Some(booking_data), Some(room))
            auto_discounts == [k \in DOMAIN auto_apply_offers.value |->
                calculate_discount(offers[auto_apply_offers.value[k]], total_amount, nights)]
            discount_amount == SumSeq([k \in DOMAIN auto_discounts |-> auto_discounts[k].value])
            leave(status, flash) ==
                /\ response' = [handler |-> "book_room", status |-> status,
                                flash |-> flash, request |-> r]
                /\ requests' = [requests EXCEPT ![r] = [Idle EXCEPT !.pc = "done"]]
        IN  /\ IF check_in < Today THEN leave(302, "Check-in date cannot be in the past.")
               ELSE IF check_out <= check_in
                   THEN leave(302, "Check-out date must be after check-in date.")
               ELSE IF ~is_available(1, check_in, check_out) THEN leave(302, "not available")
               ELSE IF auto_apply_offers.raised THEN leave(500, "")
               ELSE IF \E k \in DOMAIN auto_discounts : auto_discounts[k].raised
                   THEN leave(500, "")
               ELSE /\ requests' = [requests EXCEPT ![r] =
                            [Idle EXCEPT !.pc = "validated", !.uid = uid, !.stay = stay,
                                         !.applied_offers = auto_apply_offers.value,
                                         !.discount_amount = discount_amount,
                                         !.final_amount = Max(total_amount - discount_amount, 0)]]
                    /\ UNCHANGED response
            /\ UNCHANGED <<offers, bookings, payments, applied, now>>

\* db.session.add(booking); db.session.commit()
BookRoomStore(r) ==
    LET q == requests[r]
        room == Rooms[1]
        check_in == Today + q.stay[1]
        check_out == Today + q.stay[2]
        base_amount == room.price * (check_out - check_in)
        total_amount == base_amount + (base_amount * 18) \div 100
    IN  /\ q.pc = "validated"
        /\ bookings' = Append(bookings,
                BookingRow(q.uid, 1, check_in, check_out, total_amount,
                           q.discount_amount, q.final_amount, "", "pending", "pending"))
        /\ applied' = Append(applied, q.applied_offers)
        /\ requests' = [requests EXCEPT ![r].booking_id = Len(bookings) + 1,
                                        ![r].pending = q.applied_offers,
                                        ![r].pc = IF q.applied_offers = << >>
                                                  THEN "order" ELSE "read"]
        /\ UNCHANGED <<offers, payments, now, response>>

\* increment_usage of the next applied offer, the read: the row was expired
\* by the last commit, so `self.used_count` is loaded from the table
IncrementUsageRead(r) ==
    /\ requests[r].pc = "read"
    /\ requests' = [requests EXCEPT ![r].seen = offers[Head(requests[r].pending)].used_count,
                                    ![r].pc = "write"]
    /\ UNCHANGED <<offers, bookings, payments, applied, now, response>>

\* increment_usage of that offer, the write and its commit
IncrementUsageWrite(r) ==
    LET q == requests[r]
    IN  /\ q.pc = "write"
        /\ offers' = increment_usage_write(offers, Head(q.pending), q.seen)
        /\ requests' = [requests EXCEPT ![r].pending = Tail(q.pending),
                                        ![r].pc = IF Tail(q.pending) = << >>
                                                  THEN "order" ELSE "read"]
        /\ UNCHANGED <<bookings, payments, applied, now, response>>

\* create_razorpay_order and the redirect that ends the request
BookRoomOrder(r) ==
    LET q == requests[r]
    IN  /\ q.pc = "order"
        /\ \E gateway_ok \in BOOLEAN :
            /\ bookings' = [bookings EXCEPT ![q.booking_id].razorpay_order_id = gateway_ok]
            /\ response' = [handler |-> "book_room", status |-> 302, flash |-> "",
                            request |-> r, booking_id |-> q.booking_id,
                            location |-> IF gateway_ok THEN "payment" ELSE "room_detail"]
        /\ requests' = [requests EXCEPT ![r].pc = "done"]
        /\ UNCHANGED <<offers, payments, applied, now>>

\* the usage limits the administrator may have set on the auto-applied offer
RaceLimits == {None, Some(1), Some(2)}

InitRace ==
    /\ offers \in {[id \in {1} |-> [a EXCEPT !.code = "AUTO10", !.usage_limit = l]] :
                        a \in AutoOffers, l \in RaceLimits}
    /\ bookings = << >>
    /\ payments = << >>
    /\ applied = << >>
    /\ now = EvalNow
    /\ response = [handler |-> "none"]
    /\ requests = [r \in RaceRequests |-> Idle]

NextRace ==
    \E r \in RaceRequests :
        \/ BookRoomValidate(r)
        \/ BookRoomStore(r)
        \/ IncrementUsageRead(r)
        \/ IncrementUsageWrite(r)
        \/ BookRoomOrder(r)

SpecRace == InitRace /\ [][NextRace]_vars

-----------------------------------------------------------------------------
(* Properties of is_valid, checked under SpecValid *)

\* the stored offer the last call was made on
TheOffer == offers[response.offer]

\* the three checks that precede the user check all pass
ReachesUserCheck(o) ==
    /\ o.is_active
    /\ o.valid_from <= now /\ now <= o.valid_until
    /\ ~(~IsNone(o.usage_limit) /\ Val(o.usage_limit) # 0
         /\ o.used_count >= Val(o.usage_limit))

FailsUserCheck(r) ==
    IF r.raised THEN FALSE
    ELSE r.value = <<FALSE, "Offer not applicable for your account type">>

\* C1: is_valid of an offer with is_active = false returns validity false,
\* whatever the other fields and whichever of user, booking context and room
\* are supplied.
C1_InactiveIsInvalid ==
    (response.handler = "is_valid" /\ ~TheOffer.is_active)
        => IF response.result.raised THEN FALSE
           ELSE response.result.value[1] = FALSE

\* an inactive offer that passes every other check, evaluated with a user, a
\* booking context and a room
C1_Witness ==
    /\ response.handler = "is_valid"
    /\ ~TheOffer.is_active
    /\ ~IsNone(response.user) /\ ~IsNone(response.booking_data) /\ ~IsNone(response.room)
    /\ is_valid([TheOffer EXCEPT !.is_active = TRUE], response.user,
                response.booking_data, response.room) = Returned(<<TRUE, "Valid">>)
    /\ response.result = Returned(<<FALSE, "Offer is not active">>)

\* C6: with a user supplied and target_user_type other than 'all', the user
\* check passes exactly when the user's number c of completed bookings meets
\* the threshold (new_user: c = 0, returning_user: c >= 1, vip: c >= 3, any
\* other type: never); with no user, or with target 'all', it never fails.
C6_UserThreshold ==
    (response.handler = "is_valid" /\ ReachesUserCheck(TheOffer))
        => LET t == TheOffer.target_user_type
               c == Completed(Val(response.user))
               meets == \/ t = "new_user" /\ c = 0
                        \/ t = "returning_user" /\ c >= 1
                        \/ t = "vip" /\ c >= 3
           IN  IF ~IsNone(response.user) /\ t # "all"
                   THEN FailsUserCheck(response.result) <=> ~meets
                   ELSE ~FailsUserCheck(response.result)

\* a vip offer is refused to a user with two completed bookings
C6_Witness ==
    /\ response.handler = "is_valid"
    /\ ReachesUserCheck(TheOffer)
    /\ TheOffer.target_user_type = "vip"
    /\ response.user = Some(3)
    /\ FailsUserCheck(response.result)

\* C7: for an active, in-window offer with a season type and a booking
\* context with a check-in date that meets every other requirement, is_valid
\* returns (never raises) and is true exactly when the check-in month is in
\* the season's month set.
C7_SeasonDecides ==
    LET o == TheOffer
        applies ==
            /\ response.handler = "is_valid"
            /\ o.season_type \in {"peak", "off_peak", "festival"}
            /\ ~IsNone(response.booking_data)
            /\ ~IsNone(Val(response.booking_data).check_in)
            /\ is_valid([o EXCEPT !.season_type = "all"], response.user,
                        response.booking_data, response.room) = Returned(<<TRUE, "Valid">>)
    IN  applies
        => IF response.result.raised THEN FALSE
           ELSE response.result.value[1]
                    <=> check_season_match(o.season_type, response.booking_data)

-----------------------------------------------------------------------------
(* Properties of calculate_discount, checked under SpecDiscount *)

\* C2: for every offer, amount >= 0 and nights >= 1 the discount d returned by
\* calculate_discount satisfies 0 <= d <= amount.
C2_DiscountWithinAmount ==
    response.handler = "calculate_discount"
        => IF response.result.raised THEN TRUE
           ELSE 0 <= response.result.value /\ response.result.value <= response.amount

\* C3: a percentage discount is min(amount * discount_value / 100,
\* max_discount if set, amount), to two decimals.
C3_PercentageClamped ==
    (response.handler = "calculate_discount" /\ TheOffer.discount_type = "percentage")
        => LET raw == Percent(response.amount, TheOffer.discount_value)
               capped == IF IsNone(TheOffer.max_discount) THEN raw
                         ELSE RatMin(raw, Rat(Val(TheOffer.max_discount), 1))
               clamped == RatMin(capped, Rat(response.amount, 1))
           IN  IF response.result.raised THEN FALSE
               ELSE response.result.value = Round2(clamped[1], clamped[2])

\* C4: a stay_x_pay_y discount is 0 when discount_value >= nights; otherwise
\* it is one night's rate amount / nights (to two decimals: the nearest
\* hundredth) when nights >= 4, and 0 when nights < 4.
C4_StayXPayY ==
    (response.handler = "calculate_discount" /\ TheOffer.discount_type = "stay_x_pay_y")
        => LET d == response.result.value
               n == response.nights
               off == d * n - response.amount
           IN  IF response.result.raised THEN FALSE
               ELSE IF TheOffer.discount_value >= 100 * n THEN d = 0
               ELSE IF n >= 4 THEN -n <= 2 * off /\ 2 * off <= n
               ELSE d = 0

\* discount_value 3, four nights on 10000.00: one night's rate, 2500.00
C4_Witness ==
    /\ response.handler = "calculate_discount"
    /\ TheOffer.discount_type = "stay_x_pay_y"
    /\ TheOffer.discount_value = 300
    /\ response.nights = 4 /\ response.amount = 1000000
    /\ response.result = Returned(250000)

\* C5: a free_night discount is floor(nights / min_stay_nights) nightly rates
\* when nights >= min_stay_nights and 0 otherwise, for every stored
\* min_stay_nights, and the call never fails.
C5_FreeNight ==
    (response.handler = "calculate_discount" /\ TheOffer.discount_type = "free_night")
        => LET m == TheOffer.min_stay_nights
               n == response.nights
           IN  IF response.result.raised THEN FALSE
               ELSE m > 0 =>
                    response.result.value =
                        IF n >= m THEN Round2((n \div m) * response.amount, n) ELSE 0

-----------------------------------------------------------------------------
(* Properties of the coupon handlers, checked under SpecCoupon *)

\* the evaluator returned (false, reason)
Refuses(verdict) == ~verdict.raised /\ verdict.value[1] = FALSE

\* the booking a step has just stored
NewBooking == bookings'[Len(bookings')]

\* C9: in every caller that accepts a coupon code (book_room, apply_coupon,
\* validate_offer, create_booking), a code whose offer exists but which the
\* evaluator refuses with (false, reason) is treated as ineligible: no
\* discount is computed from it, it is not added to the applied offers and
\* its used_count is not incremented.
C9_RefusedCouponIneligible ==
    [][ /\ (response'.handler \in {"apply_coupon", "validate_offer"}
            /\ ~IsNone(OfferByCode(response'.coupon_code))
            /\ Refuses(is_valid(offers[Val(OfferByCode(response'.coupon_code))],
                                None, None, None)))
           => (~response'.success /\ offers' = offers)
        /\ (response'.handler = "book_room" /\ Len(bookings') = Len(bookings) + 1
            /\ ~IsNone(OfferByCode(NewBooking.coupon_code))
            /\ Refuses(is_valid(offers[Val(OfferByCode(NewBooking.coupon_code))],
                                Some(NewBooking.user_id),
                                Some(BookingData(Some(NewBooking.check_in),
                                                 Some(NewBooking.check_out),
                                                 NewBooking.total_amount)),
                                Some(Rooms[NewBooking.room_id]))))
           => LET auto == get_auto_apply_offers(
                              Some(NewBooking.user_id),
                              Some(BookingData(Some(NewBooking.check_in),
                                               Some(NewBooking.check_out),
                                               NewBooking.total_amount)),
                              Some(Rooms[NewBooking.room_id])).value
              IN  /\ response'.flash # "Coupon applied!"
                  /\ applied'[Len(applied')] = auto
                  /\ offers' = IncrementAll(offers, auto)
        /\ (response'.handler = "create_booking" /\ Len(bookings') = Len(bookings) + 1
            /\ ~IsNone(OfferByCode(NewBooking.coupon_code))
            /\ Refuses(is_valid(offers[Val(OfferByCode(NewBooking.coupon_code))],
                                None, None, None)))
           => (NewBooking.discount_amount = 0 /\ applied'[Len(applied')] = << >>
               /\ offers' = offers)
      ]_vars

-----------------------------------------------------------------------------
(* Properties of the booking flow, checked under Spec *)

\* C8: for every offer with a usage_limit set, used_count <= usage_limit in
\* every state reachable by booking requests and admin edits.
C8_UsageWithinLimit ==
    \A id \in DOMAIN offers :
        ~IsNone(offers[id].usage_limit)
            => offers[id].used_count <= Val(offers[id].usage_limit)

\* the booking has been confirmed: it was paid, or its status is confirmed or
\* one that only a confirmed booking reaches
Confirmed(b) ==
    \/ b.payment_status = "paid"
    \/ b.status \in {"confirmed", "checked_in", "checked_out", "completed"}

\* offer id is among the offers applied to booking i
AppliedTo(i, id) == \E k \in DOMAIN applied[i] : applied[i][k] = id

\* C10: each offer's used_count equals the number of (confirmed booking,
\* offer) pairs in which the offer's discount was applied.
C10_UsageCountsConfirmedPairs ==
    \A id \in DOMAIN offers :
        offers[id].used_count =
            Cardinality({i \in DOMAIN bookings : Confirmed(bookings[i]) /\ AppliedTo(i, id)})

-----------------------------------------------------------------------------
(* Properties of the offer selection, checked under SpecEngine *)

\* the catalog offers that are active, public and valid for the arguments of
\* the last call
Qualifying ==
    {i \in DOMAIN offers :
        /\ offers[i].is_active /\ offers[i].is_public
        /\ is_valid(offers[i], response.user, response.booking_data, response.room)
                = Returned(<<TRUE, "Valid">>)}

\* the offers a returned list holds
Listed == {response.result.value[k] : k \in DOMAIN response.result.value}

\* the relevance score of offer i for the arguments of the last call
ScoreOf(i) ==
    calculate_offer_score(offers[i], response.user, response.booking_data, response.room)

\* C11: generate_personalized_offers returns at most 8 offers for every
\* catalog, user, booking context and room, also when more than 8 are valid.
C11_AtMostEight ==
    (response.handler = "generate_personalized_offers" /\ ~response.result.raised)
        => Len(response.result.value) <= 8

\* nine offers qualify and eight are returned
C11_Witness ==
    /\ response.handler = "generate_personalized_offers"
    /\ ~response.result.raised
    /\ Cardinality(Qualifying) = 9
    /\ Len(response.result.value) = 8

\* C12: every offer generate_personalized_offers returns is active, public
\* and valid for the arguments; when at most 8 catalog offers are, all of
\* them are returned.
C12_ReturnsQualifying ==
    (response.handler = "generate_personalized_offers" /\ ~response.result.raised)
        => /\ Listed \subseteq Qualifying
           /\ Cardinality(Qualifying) <= 8 => Qualifying \subseteq Listed

\* a hidden offer and a listed offer that is not valid for the arguments are
\* left out, the seven others are returned
C12_Witness ==
    /\ response.handler = "generate_personalized_offers"
    /\ ~response.result.raised
    /\ \E i \in DOMAIN offers : ~offers[i].is_public
    /\ \E i \in DOMAIN offers : offers[i].is_active /\ offers[i].is_public /\ i \notin Qualifying
    /\ Cardinality(Qualifying) = 7
    /\ Listed = Qualifying

\* C13: the returned list is ordered by score descending; among equal scores
\* the higher priority comes first, and among equal score and priority the
\* later created_at comes first.
C13_RankedNewestFirst ==
    (response.handler = "generate_personalized_offers" /\ ~response.result.raised)
        => \A k \in 1..(Len(response.result.value) - 1) :
            LET a == response.result.value[k]
                b == response.result.value[k + 1]
            IN  \/ ScoreOf(a) > ScoreOf(b)
                \/ /\ ScoreOf(a) = ScoreOf(b)
                   /\ offers[a].priority > offers[b].priority
                \/ /\ ScoreOf(a) = ScoreOf(b)
                   /\ offers[a].priority = offers[b].priority
                   /\ offers[a].created_at >= offers[b].created_at

\* C14: get_auto_apply_offers returns exactly the offers that are active,
\* public, valid for the arguments and auto_apply, each once, however many
\* they are.
C14_AutoApplyExactly ==
    (response.handler = "get_auto_apply_offers" /\ ~response.result.raised)
        => /\ Listed = {i \in Qualifying : offers[i].auto_apply}
           /\ Len(response.result.value) = Cardinality(Listed)

\* nine auto-apply offers qualify and all nine are returned
C14_Witness ==
    /\ response.handler = "get_auto_apply_offers"
    /\ ~response.result.raised
    /\ Len(response.result.value) = 9
    /\ \A i \in DOMAIN offers : offers[i].auto_apply

-----------------------------------------------------------------------------
(* Properties of book_room's amounts, checked under SpecAuto *)

\* the booking context book_room builds for the booking a step stores
NewBookingData ==
    BookingData(Some(NewBooking.check_in), Some(NewBooking.check_out), NewBooking.total_amount)

\* the discount of offer id on the pre-discount total
DiscountOn(id, total, nights) == calculate_discount(offers[id], total, nights).value

\* the sum of the discounts of the offers in set S, each on the same total
RECURSIVE DiscountSum(_, _, _)
DiscountSum(S, total, nights) ==
    IF S = {} THEN 0
    ELSE LET id == CHOOSE x \in S : TRUE
         IN  DiscountOn(id, total, nights) + DiscountSum(S \ {id}, total, nights)

\* the offers auto-applied to the booking a step stores
NewAutoApplied ==
    LET q == get_auto_apply_offers(Some(NewBooking.user_id), Some(NewBookingData),
                                   Some(Rooms[NewBooking.room_id])).value
    IN  {q[k] : k \in DOMAIN q}

\* a step of book_room that stores a booking
Stores == response'.handler = "book_room" /\ Len(bookings') = Len(bookings) + 1

\* the discount stored beyond the auto-apply sum is nothing or the discount of
\* the coupon entered
ManualPart(auto_sum) ==
    \/ NewBooking.discount_amount = auto_sum
    \/ /\ ~IsNone(OfferByCode(NewBooking.coupon_code))
       /\ NewBooking.discount_amount = auto_sum
            + DiscountOn(Val(OfferByCode(NewBooking.coupon_code)),
                         NewBooking.total_amount, NewBooking.total_nights)

\* C15 as stated: the auto-apply discount is the sum of calculate_discount
\* over all auto-apply offers, each on the same pre-discount total; without
\* a manual coupon the final amount is total_amount minus that sum; the sum
\* is the same when a coupon is also submitted.
C15_AutoApplySum ==
    [][ Stores =>
            LET auto_sum == DiscountSum(NewAutoApplied, NewBooking.total_amount,
                                        NewBooking.total_nights)
            IN  /\ ManualPart(auto_sum)
                /\ NewBooking.coupon_code = ""
                    => /\ NewBooking.discount_amount = auto_sum
                       /\ NewBooking.final_amount = NewBooking.total_amount - auto_sum
      ]_vars

\* C15 as amended: as above, but without a manual coupon the final amount is
\* max(total_amount - sum, 0).
C15_AutoApplySumFloored ==
    [][ Stores =>
            LET auto_sum == DiscountSum(NewAutoApplied, NewBooking.total_amount,
                                        NewBooking.total_nights)
            IN  /\ ManualPart(auto_sum)
                /\ NewBooking.coupon_code = ""
                    => /\ NewBooking.discount_amount = auto_sum
                       /\ NewBooking.final_amount
                            = Max(NewBooking.total_amount - auto_sum, 0)
      ]_vars

\* offers worth 500.00 and 300.00 were auto-applied to a booking stored
\* without a coupon: discount 800.00, final amount total - 800.00
C15_Witness ==
    /\ Len(bookings) = 1
    /\ bookings[1].coupon_code = ""
    /\ applied[1] = <<1, 2>>
    /\ offers[1].discount_value = 50000 /\ offers[2].discount_value = 30000
    /\ bookings[1].discount_amount = 80000
    /\ bookings[1].final_amount = bookings[1].total_amount - 80000

-----------------------------------------------------------------------------
(* Properties of room targeting, checked under SpecValid and SpecScore *)

FailsRoomCheck(r) ==
    IF r.raised THEN FALSE
    ELSE r.value = <<FALSE, "Offer not applicable for this room">>

\* C16: an offer whose targeting lists no room types and no room ids applies
\* to all rooms, also when the admin forms stored it with both lists empty:
\* is_valid with any room supplied does not fail the room check.
C16_NoTargetingAllRooms ==
    (/\ response.handler = "is_valid"
     /\ ~IsNone(response.room)
     /\ TheOffer.target_rooms.kind \in {"null", "blank", "object"}
     /\ TheOffer.target_rooms.room_types = {}
     /\ TheOffer.target_rooms.room_ids = {})
        => ~FailsRoomCheck(response.result)

\* C17: when the stored target_rooms is non-empty but malformed (not JSON,
\* or not of the expected shape), the room check of is_valid passes for every
\* room, the room sub-score is 0, and nothing is raised.
C17_MalformedTargetingOpen ==
    (/\ response.handler \in {"is_valid", "calculate_offer_score"}
     /\ ~IsNone(response.room)
     /\ TheOffer.target_rooms.kind \in {"not_json", "not_object", "misshapen"})
        => IF response.handler = "is_valid"
               THEN ~FailsRoomCheck(response.result)
               ELSE ~response.result.raised /\ response.terms.room_match_score = 0

\* C18: is_valid, the relevance score, generate_personalized_offers and
\* get_auto_apply_offers return a result and never raise, for every stored
\* offer and every combination of present and absent user, booking context
\* (also one without dates) and room.
C18_EngineTotal ==
    response.handler \in {"is_valid", "calculate_offer_score",
                          "generate_personalized_offers", "get_auto_apply_offers"}
        => ~response.result.raised

-----------------------------------------------------------------------------
(* Properties of concurrent bookings, checked under SpecRace *)

\* request r is leaving the write of increment_usage in this step
Writes(r) == requests[r].pc = "write" /\ requests'[r].pc # "write"

\* C19: when two book_room requests are served at the same time, nothing in
\* the handler or the engine keeps used_count within usage_limit: the check
\* of usage_limit is made on the value read while validating, and the
\* increment is a plain write of the value read plus one, made whatever the
\* counter and the limit have become since (no compare-and-increment).  Two
\* requests that both pass the check at used_count = usage_limit - 1 can so
\* leave used_count above usage_limit (C19_Witness).
C19_IncrementUnguarded ==
    [][\A r \in RaceRequests :
          Writes(r) =>
              LET id == Head(requests[r].pending)
              IN  /\ \E k \in DOMAIN requests[r].applied_offers :
                        requests[r].applied_offers[k] = id
                  /\ offers'[id].used_count = requests[r].seen + 1
                  /\ \A f \in DOMAIN offers[id] \ {"used_count"} :
                        offers'[id][f] = offers[id][f]]_vars

\* both requests passed the usage check while used_count was usage_limit - 1,
\* both stored a booking with the offer applied, both have finished, and
\* used_count is above usage_limit
C19_Witness ==
    /\ \A r \in RaceRequests : requests[r].pc = "done" /\ requests[r].applied_offers = <<1>>
    /\ Len(bookings) = 2
    /\ offers[1].usage_limit = Some(1)
    /\ offers[1].used_count = 2

-----------------------------------------------------------------------------
(* Properties of the offer administration, checked under SpecCatalog *)

\* the offer the delete_offer request of this step names
Deletes(id) == response'.handler = "delete_offer" /\ response'.offer = id

\* C20: an offer with used_count > 0 is never removed: it is in the catalog,
\* and still used, after every step; delete_offer on it leaves the catalog
\* unchanged; and an offer leaves the catalog only by delete_offer on it
\* while its used_count is 0.
C20_UsedOfferKept ==
    [][/\ \A id \in DOMAIN offers :
            offers[id].used_count > 0 =>
                /\ id \in DOMAIN offers'
                /\ offers'[id].used_count > 0
                /\ Deletes(id) => offers' = offers
       /\ \A id \in DOMAIN offers \ DOMAIN offers' :
            /\ Deletes(id)
            /\ offers[id].used_count = 0
            /\ DOMAIN offers' = DOMAIN offers \ {id}]_vars

\* delete_offer has just refused to delete an offer that a booking used, and
\* the offer is still in the catalog
C20_Witness ==
    /\ response.handler = "delete_offer"
    /\ response.status = 302
    /\ response.flash = "Cannot delete offer that has been used."
    /\ response.offer \in DOMAIN offers
    /\ offers[response.offer].used_count > 0
    /\ \E i \in DOMAIN applied : AppliedTo(i, response.offer)

\* the columns duplicate_offer is said to copy: all but the code, the
\* activity, the usage counter and the creation time
CopiedFields == DOMAIN BaseOffer \ {"code", "is_active", "used_count", "created_at"}

\* no two offers of the table t have the same code
CodesUnique(t) == \A i, j \in DOMAIN t : t[i].code = t[j].code => i = j

\* C21: duplicate_offer of an existing offer adds exactly one offer, which is
\* inactive, has used_count 0, has the original's code with a suffix and the
\* original's value in every other column; the offers that were there are
\* unchanged, and codes stay unique, also when an offer is duplicated again.
C21_DuplicateCopies ==
    [][\A id \in DOMAIN offers :
          (response'.handler = "duplicate_offer" /\ response'.offer = id
              /\ response' # response) =>
              /\ \E n \in DOMAIN offers' \ DOMAIN offers :
                    /\ DOMAIN offers' = DOMAIN offers \cup {n}
                    /\ ~offers'[n].is_active
                    /\ offers'[n].used_count = 0
                    /\ offers'[n].code = offers[id].code \o "_COPY"
                    /\ \A f \in CopiedFields : offers'[n][f] = offers[id][f]
              /\ \A i \in DOMAIN offers : offers'[i] = offers[i]
              /\ CodesUnique(offers')]_vars

-----------------------------------------------------------------------------
(* Properties of the relevance score, checked under SpecScore *)

\* this step is a call of the relevance score
Scores ==
    response' # response
    /\ response'.handler \in {"calculate_offer_score", "calculate_offer_score_again"}

-----------------------------------------------------------------------------
(* Further properties of is_valid, checked under SpecValid *)

\* the call answered that the offer is valid
Accepts(r) == ~r.raised /\ r.value[1] = TRUE

\* C23: with a check-in date in the booking context, an offer is_valid accepts
\* meets both lead-time bounds: the lead time (check-in minus today) is at
\* least advance_booking_days when that is positive, and at most
\* max_advance_booking_days when that is set, whatever advance_booking_days is.
C23_LeadTimeBounds ==
    LET o == TheOffer
        bd == Val(response.booking_data)
        lead == Val(bd.check_in) - Today
    IN  (/\ response.handler = "is_valid"
         /\ ~IsNone(response.booking_data)
         /\ ~IsNone(bd.check_in)
         /\ Accepts(response.result))
        => /\ o.advance_booking_days > 0 => lead >= o.advance_booking_days
           /\ ~IsNone(o.max_advance_booking_days) => lead <= Val(o.max_advance_booking_days)

\* the offer is active and inside its validity window
ActiveInWindow(o) == o.is_active /\ o.valid_from <= now /\ now <= o.valid_until

\* C24: for an offer with a usage_limit set (0 included) whose used_count has
\* reached it, is_valid returns false with the usage-limit reason whenever the
\* offer is active and inside its window, whatever the user, booking context
\* and room (the check comes after the active and window checks and before
\* the user, booking and room checks); an inactive or out-of-window offer is
\* refused with the reason of those earlier checks.
C24_UsageLimitCheck ==
    LET o == TheOffer
    IN  (/\ response.handler = "is_valid"
         /\ ~IsNone(o.usage_limit)
         /\ o.used_count >= Val(o.usage_limit))
        => IF ~o.is_active
               THEN response.result = Returned(<<FALSE, "Offer is not active">>)
           ELSE IF ~ActiveInWindow(o)
               THEN response.result = Returned(<<FALSE, "Offer has expired">>)
           ELSE response.result = Returned(<<FALSE, "Offer usage limit reached">>)

-----------------------------------------------------------------------------
(* Properties of the terms of the relevance score, checked under SpecScore *)

\* the response is that of a first call of the relevance score
Scored == response.handler = "calculate_offer_score"

\* C25: the user-type term of the score is +10 for target_user_type 'all';
\* for another target type and a user present +25 (new_user, matching), +20
\* (returning_user, matching), +30 (vip, matching), -20 on a mismatch; and 0
\* for another target type when no user is present.
C25_UserTypeTerm ==
    Scored =>
        LET o == TheOffer
            n == completed_bookings(Val(response.user))
            term == response.terms.user_match_score
        IN  IF o.target_user_type = "all" THEN term = 10
            ELSE IF IsNone(response.user) THEN term = 0
            ELSE IF o.target_user_type = "new_user" /\ n = 0 THEN term = 25
            ELSE IF o.target_user_type = "returning_user" /\ n >= 1 THEN term = 20
            ELSE IF o.target_user_type = "vip" /\ n >= 3 THEN term = 30
            ELSE term = -20

\* C26: with a booking context, the booking term of the score is the sum of
\* +15 / -10 for a stay that meets / misses min_stay_nights, +10 / -10 for a
\* stay within / beyond max_stay_nights when that is set, and +12 / -8 for a
\* total_amount at least / below min_amount, for every min_amount, 0 included.
C26_BookingTerm ==
    (Scored /\ ~IsNone(response.booking_data)
        /\ ~IsNone(Val(response.booking_data).check_in)
        /\ ~IsNone(Val(response.booking_data).check_out)) =>
        LET o == TheOffer
            bd == Val(response.booking_data)
            nights == Val(bd.check_out) - Val(bd.check_in)
        IN  response.terms.booking_match_score =
                (IF nights >= o.min_stay_nights THEN 15 ELSE -10)
                + (IF IsNone(o.max_stay_nights) THEN 0
                   ELSE IF nights <= Val(o.max_stay_nights) THEN 10 ELSE -10)
                + (IF bd.total_amount >= o.min_amount THEN 12 ELSE -8)

-----------------------------------------------------------------------------
(* Frame properties of the engine, checked under SpecCoupon *)

\* how many times offer id is in the applied_offers list q
Occurrences(q, id) == Cardinality({k \in DOMAIN q : q[k] = id})

\* C27: is_valid, calculate_discount, the relevance score,
\* generate_personalized_offers and get_auto_apply_offers change no stored
\* offer: the handlers that only call them (apply_coupon, validate_offer, the
\* booking page, a refused or failed booking) leave the offers table as it
\* was.  used_count changes only through increment_usage, by one per call:
\* when book_room stores a booking, each offer's used_count rises by the
\* number of times the offer is in applied_offers and nothing else of the
\* offer changes; used_count never decreases.
C27_OnlyIncrementWrites ==
    [][/\ DOMAIN offers' = DOMAIN offers
       /\ \A id \in DOMAIN offers : offers'[id].used_count >= offers[id].used_count
       /\ IF Stores
          THEN \A id \in DOMAIN offers :
                  offers'[id] = [offers[id] EXCEPT !.used_count =
                                    @ + Occurrences(applied'[Len(applied')], id)]
          ELSE offers' = offers]_vars

\* book_room has stored a booking to which one offer was applied, and that
\* offer's used_count went from 0 to 1 while the other offer is as it was
C27_Witness ==
    /\ response.handler = "book_room"
    /\ Len(bookings) = 1
    /\ applied[1] = <<1>>
    /\ offers[1].used_count = 1
    /\ offers[2].used_count = 0

-----------------------------------------------------------------------------
(* Properties of the stored amounts, checked under SpecAuto *)

\* C28: every booking book_room has stored has final_amount >= 0 and
\* discount_amount <= total_amount, whatever auto-applied offers and manual
\* coupon it was made with.
C28_AmountsInRange ==
    \A i \in DOMAIN bookings :
        /\ bookings[i].final_amount >= 0
        /\ bookings[i].discount_amount <= bookings[i].total_amount

-----------------------------------------------------------------------------
(* Properties of the booking statuses, checked under Spec *)

\* C29: 'cancelled' and 'completed' are terminal, and every change of a
\* booking's status, by an admin update, a cancellation or a payment, follows
\* the transition table: pending -> confirmed | cancelled, confirmed ->
\* checked_in | cancelled, checked_in -> checked_out | completed,
\* checked_out -> completed.
C29_StatusTransitions ==
    [][\A bid \in DOMAIN bookings :
          bookings'[bid].status # bookings[bid].status =>
              /\ bookings[bid].status \notin {"cancelled", "completed"}
              /\ bookings'[bid].status \in allowed_transitions(bookings[bid].status)]_vars

-----------------------------------------------------------------------------
(* Properties of the bookings of a room, checked under SpecRooms *)

\* the booking holds its room: it is pending, confirmed or checked in
Live(b) == b.status \in {"pending", "confirmed", "checked_in"}

\* C30: no room ever has two live bookings (pending, confirmed or checked_in)
\* whose date ranges overlap.
C30_NoOverlappingLiveBookings ==
    \A i, j \in DOMAIN bookings :
        (/\ i < j
         /\ bookings[i].room_id = bookings[j].room_id
         /\ Live(bookings[i]) /\ Live(bookings[j]))
        => ~(/\ bookings[i].check_in < bookings[j].check_out
             /\ bookings[i].check_out > bookings[j].check_in)

=============================================================================
